---- MODULE Spec2Model ----
(***************************************************************************)
(* The `next dev` supervisor of packages/next/src/cli/next-dev.ts: the     *)
(* launch path of nextDev, the startServer handshake with the forked       *)
(* worker, the restart on RESTART_EXIT_CODE and handleSessionStop.         *)
(* One action is one run of the parent's event loop: a handler runs from   *)
(* its start to its first suspending await, or from the resumption of an   *)
(* await to the next one.                                                  *)
(***************************************************************************)
EXTENDS Integers, Sequences, FiniteSets, TLC

\* ------------------------------------------------------------------ bounds
MaxGen == 2
MaxMsgs == 2
MaxSignals == 2

\* --------------------------------------------------------------- constants
RESTART_EXIT_CODE == 77

Gens == 1..MaxGen
Signals == {"SIGINT", "SIGTERM"}

\* The shapes of a message of the worker, as the message handler reads them:
\* objects with the two fields it tests.  A message that is no object passes
\* through the handler as the object with neither field does.
Msgs ==
  { [nextWorkerReady |-> TRUE,  nextServerReady |-> FALSE],
    [nextWorkerReady |-> FALSE, nextServerReady |-> TRUE],
    [nextWorkerReady |-> FALSE, nextServerReady |-> FALSE] }

ReadyMsg == [nextWorkerReady |-> TRUE, nextServerReady |-> FALSE]
ServerReadyMsg == [nextWorkerReady |-> FALSE, nextServerReady |-> TRUE]

\* (code, signal) of a child's 'exit' event: a code with no signal (the
\* restart code, or another code), or a signal with no code (-1 stands for
\* the null code).
ExitOutcomes ==
  { [code |-> RESTART_EXIT_CODE, signal |-> "null"],
    [code |-> 1, signal |-> "null"],
    [code |-> -1, signal |-> "SIGTERM"] }

\* The command line and environment of one invocation.
Args ==
  [ help : BOOLEAN, dirExists : BOOLEAN, portFlag : BOOLEAN, envPort : BOOLEAN,
    port : {"free", "reserved"}, turbo : BOOLEAN,
    https : {"off", "files", "selfsigned"}, uploadTrace : BOOLEAN ]

NoCert == [kind |-> "none", id |-> 0]
NoOptions == [port |-> "unset", allowRetry |-> FALSE, isDev |-> FALSE, cert |-> NoCert]
NoWorker == [status |-> "none", code |-> 0, signal |-> "null"]

\* The points of the try block of handleSessionStop where a call can throw.
FailPoints == {"loadConfig", "Telemetry", "findPagesDir", "record", "flushDetached"}

VARIABLES
  args,               \* the parsed arguments and environment
  mainPc,             \* where nextDev stands
  port,               \* const port
  allowRetry,         \* const allowRetry
  devServerOptions,   \* const devServerOptions
  certGenerated,      \* calls of createSelfSignedCertificate that returned
  child,              \* let child: 0 is undefined, else the worker's generation
  config,             \* let config: TRUE when assigned
  traceUploadUrl,     \* let traceUploadUrl: TRUE when assigned
  sessionStopHandled, \* let sessionStopHandled
  worker,             \* the forked processes, by generation
  chan,               \* messages of each worker not yet handled by the parent
  nsent,              \* messages the workers have sent
  genOptions,         \* the `options` each startServer call closed over
  resolved,           \* the `resolved` flag of each startServer call
  resolveCount,       \* calls of resolve() of each startServer promise
  gotServerReady,     \* a nextServerReady message of that worker was handled
  optionsSent,        \* nextWorkerOptions messages sent, by <<to, in reply to>>
  spawnCount,         \* calls of fork
  stopInvocations,    \* calls of handleSessionStop
  stopAwaiting,       \* the calls suspended at await loadConfig
  kills,              \* the child.kill calls
  telemetryRecords,   \* calls of telemetry.record
  telemetryFlushes,   \* calls of telemetry.flushDetached
  traceUploads,       \* calls of uploadTrace
  cursorRestores,     \* writes of the show-cursor sequence
  performer,          \* the call of handleSessionStop that ran lines 51-101
  escaped,            \* an exception left handleSessionStop
  stopSteps,          \* the steps of the call that set sessionStopHandled
  exited,             \* the parent process has exited
  exitStatus,         \* with this status
  exitBy,             \* by this call
  signalsDelivered    \* SIGINT and SIGTERM delivered to the parent

mainVars == <<mainPc, port, allowRetry, devServerOptions, certGenerated>>
sessVars == <<child, config, traceUploadUrl, sessionStopHandled>>
chanVars == <<chan, nsent, resolved, resolveCount, gotServerReady, optionsSent>>
forkVars == <<worker, genOptions, spawnCount>>
stopVars == <<stopInvocations, stopAwaiting, kills, telemetryRecords,
              telemetryFlushes, traceUploads, cursorRestores, performer, escaped,
              stopSteps>>
procVars == <<exited, exitStatus, exitBy>>
envVars == <<args, signalsDelivered>>
vars == <<mainVars, sessVars, chanVars, forkVars, stopVars, procVars, envVars>>

Init ==
  /\ args \in Args
  /\ mainPc = "start"
  /\ port = "unset"
  /\ allowRetry = FALSE
  /\ devServerOptions = NoOptions
  /\ certGenerated = 0
  /\ child = 0
  /\ config = FALSE
  /\ traceUploadUrl = FALSE
  /\ sessionStopHandled = FALSE
  /\ worker = [g \in Gens |-> NoWorker]
  /\ chan = [g \in Gens |-> <<>>]
  /\ nsent = 0
  /\ genOptions = [g \in Gens |-> NoOptions]
  /\ resolved = [g \in Gens |-> FALSE]
  /\ resolveCount = [g \in Gens |-> 0]
  /\ gotServerReady = [g \in Gens |-> FALSE]
  /\ optionsSent = [p \in Gens \X Gens |-> 0]
  /\ spawnCount = 0
  /\ stopInvocations = 0
  /\ stopAwaiting = {}
  /\ kills = <<>>
  /\ telemetryRecords = 0
  /\ telemetryFlushes = 0
  /\ traceUploads = 0
  /\ cursorRestores = 0
  /\ performer = 0
  /\ escaped = FALSE
  /\ stopSteps = <<>>
  /\ exited = FALSE
  /\ exitStatus = 0
  /\ exitBy = "none"
  /\ signalsDelivered = 0

\* process.exit(status), called by `by`.
Exit(status, by) ==
  /\ exited' = TRUE
  /\ exitStatus' = status
  /\ exitBy' = by


\* ------------------------------------------------------- the launch path

\* printAndExit(message), line 132, is given no code: the status is the
\* function's default, 1 for an invalid project directory.
PrintAndExitDefaultCode == 1

\* getPort(args), line 173.
getPort(a) == a.port

\* A mutant of isPortIsReserved: no port is reserved.
isPortIsReservedNever(p) == FALSE

\* isPortIsReserved(port), line 175.
isPortIsReserved(p) == p = "reserved"

\* A mutant of allowRetryOf: the environment's PORT is not looked at.
allowRetryFlagOnly(portFlag, envPort) == ~portFlag

\* allowRetry, lines 180-181: neither --port nor PORT was given.
allowRetryOf(portFlag, envPort) == ~portFlag /\ ~envPort

\* devServerOptions, lines 220-229.
buildOptions(p, retry) ==
  [port |-> p, allowRetry |-> retry, isDev |-> TRUE, cert |-> NoCert]

\* startServer(options), lines 248-259: fork the worker and keep its handle.
\* `w` is `worker` as the calling handler leaves it.
startServer(options, w) ==
  LET g == spawnCount + 1 IN
  /\ child' = g
  /\ spawnCount' = g
  /\ worker' = [w EXCEPT ![g] = [status |-> "alive", code |-> 0, signal |-> "null"]]
  /\ genOptions' = [genOptions EXCEPT ![g] = options]

\* A mutant of runDevServer: startServer is called in the https branch and
\* again after it, neither call awaited.
runDevServerForksTwice(o) ==
  /\ child' = spawnCount + 2
  /\ spawnCount' = spawnCount + 2
  /\ worker' = [g \in Gens |->
                  IF g \in {spawnCount + 1, spawnCount + 2}
                    THEN [status |-> "alive", code |-> 0, signal |-> "null"]
                    ELSE worker[g]]
  /\ genOptions' = [g \in Gens |->
                      IF g \in {spawnCount + 1, spawnCount + 2} THEN o
                                                                 ELSE genOptions[g]]
  /\ mainPc' = "startServer"
  /\ certGenerated' = certGenerated

\* runDevServer(false), lines 284-311, up to its first await.
runDevServer(o) ==
  IF args.https = "off" THEN
    /\ startServer(o, worker)
    /\ mainPc' = "startServer"
    /\ certGenerated' = certGenerated
  ELSE IF args.https = "files" THEN
    /\ startServer([o EXCEPT !.cert = [kind |-> "files", id |-> 0]], worker)
    /\ mainPc' = "startServer"
    /\ certGenerated' = certGenerated
  ELSE
    /\ mainPc' = "createSelfSignedCertificate"
    /\ UNCHANGED <<child, forkVars, certGenerated>>

\* nextDev, lines 107-131: --help, or on to await fileExists.
NextDevStart ==
  /\ ~exited
  /\ mainPc = "start"
  /\ IF args.help
       THEN Exit(0, "help") /\ mainPc' = "exited"
       ELSE mainPc' = "fileExists" /\ UNCHANGED procVars
  /\ UNCHANGED <<port, allowRetry, devServerOptions, certGenerated, sessVars,
                 chanVars, forkVars, stopVars, envVars>>

\* nextDev, lines 131-190: the directory check, the port check, allowRetry,
\* on to await loadConfig.
NextDevAfterFileExists ==
  /\ ~exited
  /\ mainPc = "fileExists"
  /\ IF ~args.dirExists THEN
       /\ Exit(PrintAndExitDefaultCode, "printAndExit")
       /\ mainPc' = "exited"
       /\ UNCHANGED <<port, allowRetry>>
     ELSE
       /\ port' = getPort(args)
       /\ IF isPortIsReserved(getPort(args)) THEN
            /\ Exit(1, "printAndExit")
            /\ mainPc' = "exited"
            /\ UNCHANGED allowRetry
          ELSE
            /\ allowRetry' = allowRetryOf(args.portFlag, args.envPort)
            /\ mainPc' = "loadConfig"
            /\ UNCHANGED procVars
  /\ UNCHANGED <<devServerOptions, certGenerated, sessVars, chanVars, forkVars,
                 stopVars, envVars>>

\* nextDev, lines 190-243 and 320: loadConfig returned.
NextDevAfterLoadConfig ==
  /\ ~exited
  /\ mainPc = "loadConfig"
  /\ config' = TRUE
  /\ traceUploadUrl' = (args.uploadTrace \/ traceUploadUrl)
  /\ LET o == buildOptions(port, allowRetry) IN
     /\ devServerOptions' = o
     /\ IF args.turbo
          THEN /\ mainPc' = "validateTurboNextConfig"
               /\ UNCHANGED <<child, forkVars, certGenerated>>
          ELSE runDevServer(o)
  /\ UNCHANGED <<port, allowRetry, sessionStopHandled, chanVars, stopVars,
                 procVars, envVars>>

\* nextDev, line 190 or 236: the awaited call threw, nextDev rejects.
NextDevRejects ==
  /\ ~exited
  /\ mainPc \in {"loadConfig", "validateTurboNextConfig"}
  /\ mainPc' = "rejected"
  /\ UNCHANGED <<port, allowRetry, devServerOptions, certGenerated, sessVars,
                 chanVars, forkVars, stopVars, procVars, envVars>>

\* nextDev, lines 236-243 and 320: validateTurboNextConfig returned.
NextDevAfterValidate ==
  /\ ~exited
  /\ mainPc = "validateTurboNextConfig"
  /\ runDevServer(devServerOptions)
  /\ UNCHANGED <<port, allowRetry, devServerOptions, config, traceUploadUrl,
                 sessionStopHandled, chanVars, stopVars, procVars, envVars>>

\* runDevServer, lines 302-308: createSelfSignedCertificate returned.
RunDevServerAfterCertificate ==
  /\ ~exited
  /\ mainPc = "createSelfSignedCertificate"
  /\ certGenerated' = certGenerated + 1
  /\ startServer([devServerOptions EXCEPT
                    !.cert = [kind |-> "selfsigned", id |-> certGenerated + 1]],
                 worker)
  /\ mainPc' = "startServer"
  /\ UNCHANGED <<port, allowRetry, devServerOptions, config, traceUploadUrl,
                 sessionStopHandled, chanVars, stopVars, procVars, envVars>>

\* runDevServer, lines 314-317: createSelfSignedCertificate or preflight
\* threw.
RunDevServerCatch ==
  /\ ~exited
  /\ mainPc \in {"createSelfSignedCertificate", "preflight"}
  /\ Exit(1, "runDevServer")
  /\ mainPc' = "exited"
  /\ UNCHANGED <<port, allowRetry, devServerOptions, certGenerated, sessVars,
                 chanVars, forkVars, stopVars, envVars>>

\* runDevServer, line 313: preflight returned.
PreflightReturns ==
  /\ ~exited
  /\ mainPc = "preflight"
  /\ mainPc' = "done"
  /\ UNCHANGED <<port, allowRetry, devServerOptions, certGenerated, sessVars,
                 chanVars, forkVars, stopVars, procVars, envVars>>


\* --------------------------------------------------- the Shutdown Coordinator

\* child.kill((signal as any) || 0), line 40: the argument of kill.
KillArg(signal) == IF signal = "null" THEN "0" ELSE signal

\* A mutant of ForwardsKill: the kill comes after the guard of line 42.
ForwardsKillUnlessHandled(c, handled) == c # 0 /\ ~handled

\* if (child), line 39: it stands before the guard of line 42 and so does not
\* look at sessionStopHandled.
ForwardsKill(c, handled) == c # 0

\* A mutant of StopAlreadyHandled: the guard is missing.
StopNeverHandled(handled) == FALSE

\* A mutant of StopAlreadyHandled: the guard is inverted.
StopGuardInverted(handled) == ~handled

\* if (sessionStopHandled) return, line 42.
StopAlreadyHandled(handled) == handled

\* A mutant of StopFlagValue: the flag is left as it was.
StopFlagLeftUnset == FALSE

\* sessionStopHandled = true, line 43.
StopFlagValue == TRUE

\* A mutant of Caught: the Telemetry client is built outside the try block.
CaughtUnlessTelemetry(f) == f # "Telemetry"

\* catch (_) {}, lines 82-85: whatever the try block throws is caught.
Caught(f) == TRUE

\* process.exit(0), line 101.
StopExitStatus == 0

\* telemetry.record and telemetry.flushDetached, lines 71-81, in the order of
\* the calls made when the try block throws at f, or not at all.
TelemetrySteps(f) ==
  IF f \in {"none", "flushDetached"} THEN <<"record", "flushDetached">>
  ELSE IF f = "record" THEN <<"record">>
  ELSE <<>>

\* A mutant of StopTail: process.exit comes before the cursor restore.
StopTailExitFirst(upload) ==
  (IF upload THEN <<"uploadTrace">> ELSE <<>>) \o <<"exit", "cursor", "newline">>

\* Lines 87-101 in the order of the calls: uploadTrace when traceUploadUrl is
\* set (the call is not awaited), the show-cursor write, the newline write and
\* process.exit.
StopTail(upload) ==
  (IF upload THEN <<"uploadTrace">> ELSE <<>>) \o <<"cursor", "newline", "exit">>

\* handleSessionStop, lines 51-101, which run without suspending: the
\* telemetry step, which throws at f or not at all, the trace upload, the
\* cursor restore and the exit.  `cfg` is config after line 49 and `pre` the
\* steps the call has made before line 51.
StopFinish(inv, cfg, f, pre) ==
  /\ config' = cfg
  /\ performer' = inv
  /\ telemetryRecords' =
       telemetryRecords + (IF f \in {"none", "record", "flushDetached"} THEN 1 ELSE 0)
  /\ telemetryFlushes' =
       telemetryFlushes + (IF f \in {"none", "flushDetached"} THEN 1 ELSE 0)
  /\ IF (f # "none" /\ ~Caught(f)) \/ (traceUploadUrl /\ ~cfg) THEN
       \* the throw of the try block, or of config.distDir on line 93, leaves
       \* the function
       /\ escaped' = TRUE
       /\ stopSteps' = pre \o TelemetrySteps(f)
       /\ UNCHANGED <<traceUploads, cursorRestores, procVars>>
     ELSE
       /\ escaped' = escaped
       /\ stopSteps' = pre \o TelemetrySteps(f) \o StopTail(traceUploadUrl)
       /\ traceUploads' = traceUploads + (IF traceUploadUrl THEN 1 ELSE 0)
       /\ cursorRestores' = cursorRestores + 1
       /\ Exit(StopExitStatus, "handleSessionStop")

\* handleSessionStop(signal), lines 38-49, up to await loadConfig, and on to
\* line 101 when config is assigned already and nothing is awaited.
handleSessionStop(signal) ==
  LET inv == stopInvocations + 1
      pre == IF ForwardsKill(child, sessionStopHandled)
               THEN Append(stopSteps, "kill") ELSE stopSteps
  IN
  /\ stopInvocations' = inv
  /\ kills' = IF ForwardsKill(child, sessionStopHandled)
                THEN Append(kills, [inv |-> inv, to |-> child, sig |-> KillArg(signal)])
                ELSE kills
  /\ IF StopAlreadyHandled(sessionStopHandled) THEN
       UNCHANGED <<sessionStopHandled, config, stopAwaiting, telemetryRecords,
                   telemetryFlushes, traceUploads, cursorRestores, performer,
                   escaped, stopSteps, procVars>>
     ELSE
       /\ sessionStopHandled' = StopFlagValue
       /\ IF config THEN
            /\ stopAwaiting' = stopAwaiting
            /\ \E f \in (FailPoints \ {"loadConfig"}) \cup {"none"} :
                 StopFinish(inv, TRUE, f, pre)
          ELSE
            /\ stopAwaiting' = stopAwaiting \cup {inv}
            /\ stopSteps' = pre
            /\ UNCHANGED <<config, telemetryRecords, telemetryFlushes, traceUploads,
                           cursorRestores, performer, escaped, procVars>>

\* process.on('SIGINT' | 'SIGTERM'), lines 104-105.
Signal(sig) ==
  /\ ~exited
  /\ signalsDelivered < MaxSignals
  /\ signalsDelivered' = signalsDelivered + 1
  /\ handleSessionStop(sig)
  /\ UNCHANGED <<mainVars, child, traceUploadUrl, chanVars, forkVars, args>>

\* A mutant of ConfigAfterAwait: a loadConfig that throws leaves config unset.
ConfigClearedOnThrow(cur, f) == f # "loadConfig"

\* config = config || (await loadConfig(...)), line 49, after the await: the
\* assignment is made when loadConfig returned, and not made when it threw
\* (f = "loadConfig"), which leaves config as it is by then.
ConfigAfterAwait(cur, f) == IF f = "loadConfig" THEN cur ELSE TRUE

\* handleSessionStop, lines 49-101: the awaited loadConfig returned, or threw
\* (f = "loadConfig").
StopResume(inv, f) ==
  /\ ~exited
  /\ inv \in stopAwaiting
  /\ stopAwaiting' = stopAwaiting \ {inv}
  /\ StopFinish(inv, ConfigAfterAwait(config, f), f, stopSteps)
  /\ UNCHANGED <<stopInvocations, kills, sessionStopHandled, mainVars, child,
                 traceUploadUrl, chanVars, forkVars, envVars>>

\* ------------------------------------------------------------ the handshake

\* A mutant of ShouldResolve: the `resolved` guard is missing.
ShouldResolveEveryTime(msg, res) == msg.nextServerReady

\* msg.nextServerReady && !resolved, line 265.
ShouldResolve(msg, res) == msg.nextServerReady /\ ~res

\* child.on('message'), lines 261-270, of the startServer call of generation
\* g: nextWorkerReady is answered through child?.send, where `child` is the
\* module's variable, not the handle the handler was registered on; else
\* nextServerReady resolves the call's promise.  The resolve() of the first
\* call resumes runDevServer, which goes on to await in preflight.
ChildMessage(g) ==
  /\ ~exited
  /\ chan[g] # <<>>
  /\ LET msg == Head(chan[g])
         sends == msg.nextWorkerReady /\ child # 0
         resolves == ~msg.nextWorkerReady /\ ShouldResolve(msg, resolved[g]) IN
     /\ chan' = [chan EXCEPT ![g] = Tail(@)]
     /\ gotServerReady' =
          [gotServerReady EXCEPT ![g] = @ \/ msg.nextServerReady]
     /\ optionsSent' = IF sends THEN [optionsSent EXCEPT ![<<child, g>>] = @ + 1]
                                ELSE optionsSent
     /\ resolved' = IF resolves THEN [resolved EXCEPT ![g] = TRUE]
                                          ELSE resolved
     /\ resolveCount' = IF resolves THEN [resolveCount EXCEPT ![g] = @ + 1]
                                              ELSE resolveCount
     /\ mainPc' = IF resolves /\ g = 1 /\ mainPc = "startServer"
                    THEN "preflight" ELSE mainPc
  /\ UNCHANGED <<nsent, port, allowRetry, devServerOptions, certGenerated, sessVars,
                 forkVars, stopVars, procVars, envVars>>

\* The worker sends a message on its channel.
WorkerSend(g, m) ==
  /\ ~exited
  /\ worker[g].status = "alive"
  /\ nsent < MaxMsgs
  /\ nsent' = nsent + 1
  /\ chan' = [chan EXCEPT ![g] = Append(@, m)]
  /\ UNCHANGED <<resolved, resolveCount, gotServerReady, optionsSent, mainVars,
                 sessVars, forkVars, stopVars, procVars, envVars>>

\* The worker process ends, by itself or killed; its 'exit' event is pending.
WorkerExits(g, o) ==
  /\ ~exited
  /\ worker[g].status = "alive"
  /\ o.code = RESTART_EXIT_CODE => spawnCount < MaxGen
  /\ worker' = [worker EXCEPT ![g] = [status |-> "dead", code |-> o.code,
                                       signal |-> o.signal]]
  /\ UNCHANGED <<genOptions, spawnCount, mainVars, sessVars, chanVars, stopVars,
                 procVars, envVars>>

\* A mutant of RestartOptions: the restart builds its options anew.
RestartOptionsRebuilt(options) == buildOptions(options.port, options.allowRetry)

\* A mutant of RestartOptions: the restart makes a new certificate.
RestartOptionsNewCertificate(options) ==
  IF options.cert.kind = "selfsigned"
    THEN [options EXCEPT !.cert.id = @ + 1]
    ELSE options

\* startServer(options), line 277: the restart passes the options it closed
\* over.
RestartOptions(options) == options

\* A mutant of IsRestart: every code but 0 restarts.
IsRestartNonZero(code) == code # 0

\* code === RESTART_EXIT_CODE, line 276.
IsRestart(code) == code = RESTART_EXIT_CODE

\* A mutant of ChildAfterExit: the exit handler clears the handle.
ChildClearedOnExit(c) == 0

\* `child` after the branches of the exit handler that do not restart, lines
\* 273-275 and 279: neither assigns it.
ChildAfterExit(c) == c

\* child.on('exit'), lines 272-280, of the startServer call of generation g.
ChildExit(g) ==
  /\ ~exited
  /\ worker[g].status = "dead"
  /\ LET code == worker[g].code
         signal == worker[g].signal
         w == [worker EXCEPT ![g] = [status |-> "reaped", code |-> 0,
                                      signal |-> "null"]] IN
     IF sessionStopHandled \/ signal # "null" THEN
       /\ worker' = w
       /\ child' = ChildAfterExit(child)
       /\ UNCHANGED <<genOptions, spawnCount, config, traceUploadUrl,
                      sessionStopHandled, stopVars, procVars>>
     ELSE IF IsRestart(code) THEN
       /\ startServer(RestartOptions(genOptions[g]), w)
       /\ UNCHANGED <<config, traceUploadUrl, sessionStopHandled, stopVars, procVars>>
     ELSE
       /\ handleSessionStop(signal)
       /\ worker' = w
       /\ child' = ChildAfterExit(child)
       /\ UNCHANGED <<genOptions, spawnCount, traceUploadUrl>>
  /\ UNCHANGED <<mainVars, chanVars, envVars>>

Next ==
  \/ NextDevStart
  \/ NextDevAfterFileExists
  \/ NextDevAfterLoadConfig
  \/ NextDevRejects
  \/ NextDevAfterValidate
  \/ RunDevServerAfterCertificate
  \/ RunDevServerCatch
  \/ PreflightReturns
  \/ \E sig \in Signals : Signal(sig)
  \/ \E inv \in stopAwaiting, f \in FailPoints \cup {"none"} : StopResume(inv, f)
  \/ \E g \in Gens : ChildMessage(g)
  \/ \E g \in Gens, m \in Msgs : WorkerSend(g, m)
  \/ \E g \in Gens, o \in ExitOutcomes : WorkerExits(g, o)
  \/ \E g \in Gens : ChildExit(g)

Spec == Init /\ [][Next]_vars


\* The sessions without --port and PORT: the two only set allowRetry, which
\* no handler reads.
InitNoPortFlags == Init /\ ~args.portFlag /\ ~args.envPort

\* The awaited loadConfig of handleSessionStop returns or throws in the end.
FairSpec ==
  InitNoPortFlags /\ [][Next]_vars
  /\ WF_vars(\E inv \in stopAwaiting, f \in FailPoints \cup {"none"} :
                    StopResume(inv, f))

\* ------------------------------------------------------------------ claims

\* C1: whatever the interleaving of SIGINT, SIGTERM and worker exits, also
\* with a trigger arriving while an earlier call of handleSessionStop is
\* suspended at await loadConfig, the telemetry record and flush, the trace
\* upload, the cursor restore and process.exit(0) happen at most once, and
\* only the first call, which set sessionStopHandled before suspending, is
\* ever suspended or performs them.
C1_ShutdownEffectsAtMostOnce ==
  /\ telemetryRecords <= 1
  /\ telemetryFlushes <= 1
  /\ traceUploads <= 1
  /\ cursorRestores <= 1
  /\ performer \in {0, 1}
  /\ stopAwaiting \subseteq {1}
  /\ stopAwaiting # {} => sessionStopHandled
  /\ exitBy = "handleSessionStop" => performer = 1 /\ cursorRestores = 1

\* A second trigger arrived while the first call was suspended, and the first
\* call then ran the sequence.
C1_Witness ==
  /\ stopInvocations >= 2
  /\ performer = 1
  /\ exitBy = "handleSessionStop"
  /\ telemetryRecords = 1
  /\ traceUploads = 1

\* C2: the promise of a startServer call is resolved at most once, not before
\* a nextServerReady message of its worker was handled, and by the first such
\* message.
C2_ResolvesExactlyOnce ==
  \A g \in Gens :
    /\ resolveCount[g] <= 1
    /\ resolveCount[g] = 1 <=> gotServerReady[g]
    /\ resolved[g] <=> gotServerReady[g]
    /\ (g = 1 /\ mainPc = "startServer") => ~gotServerReady[g]

\* The first worker sent ready, was sent its options, sent serverReady, and
\* the promise is resolved once.
C2_Witness ==
  /\ optionsSent[<<1, 1>>] = 1
  /\ resolveCount[1] = 1
  /\ nsent = 2
  /\ chan[1] = <<>>
  /\ mainPc = "preflight"

C4_LateMessagesIgnored ==
  [][\A g \in Gens :
       (Len(chan'[g]) < Len(chan[g]) /\ g # child)
       => /\ optionsSent' = optionsSent
          /\ resolveCount' = resolveCount
          /\ resolved' = resolved
          /\ mainPc' = mainPc]_vars

\* C5: once a nextServerReady message of the tracked worker was handled, the
\* promise runDevServer awaits (that of the first startServer call) is
\* resolved.
C5_CallerResolvedWhenTrackedWorkerServes ==
  \A g \in Gens : (g = child /\ gotServerReady[g]) => resolved[1]

\* C6: whenever lines 51-101 of handleSessionStop have run, whatever the
\* try block threw, the cursor restore was written and the process exited
\* with status 0; no exception leaves handleSessionStop.
C6_TelemetryFailureSwallowed ==
  /\ ~escaped
  /\ performer # 0 =>
       /\ exited
       /\ exitStatus = 0
       /\ exitBy = "handleSessionStop"
       /\ cursorRestores = 1

\* The try block threw before telemetry.record, in a call that had awaited
\* loadConfig, and the coordinator exited with status 0.
C6_Witness ==
  /\ performer = 1
  /\ telemetryRecords = 0
  /\ config = FALSE
  /\ exited
  /\ exitStatus = 0
  /\ cursorRestores = 1

\* C7: every call of handleSessionStop made while `child` is set calls
\* child.kill with the originating signal, or with 0 when the call comes from
\* the exit handler; a call that finds sessionStopHandled set does nothing
\* else.
C7_EveryInvocationForwardsKill ==
  [][ /\ \A sig \in Signals :
           (Signal(sig) /\ child # 0)
           => kills' = Append(kills, [inv |-> stopInvocations + 1, to |-> child,
                                      sig |-> sig])
      /\ ( (\E g \in Gens : ChildExit(g)) /\ stopInvocations' # stopInvocations )
           => kills' = Append(kills, [inv |-> stopInvocations + 1, to |-> child,
                                      sig |-> "0"])
      /\ ( stopInvocations' # stopInvocations /\ sessionStopHandled )
           => UNCHANGED <<mainVars, sessVars, chanVars, forkVars, stopAwaiting,
                          telemetryRecords, telemetryFlushes, traceUploads,
                          cursorRestores, performer, escaped, procVars, args>>
    ]_vars

\* A call that found sessionStopHandled set forwarded a kill to the worker.
C7_Witness ==
  /\ sessionStopHandled
  /\ \E k \in 1..Len(kills) : kills[k].inv >= 2 /\ kills[k].to # 0

\* C8 as stated: a session that received SIGINT or SIGTERM and has ended has
\* ended with status 0.
C8_SignalledExitStatusZero ==
  (signalsDelivered > 0 /\ exited) => exitStatus = 0

\* C8 amended: once SIGINT or SIGTERM is delivered, sessionStopHandled is set
\* and the process ends in the end; it ends with status 0, by the
\* coordinator or by --help, unless the launch path, which runs on while the
\* coordinator awaits loadConfig, ends it first with status 1.
C8_SignalledEventuallyExits ==
  /\ [](signalsDelivered > 0 => sessionStopHandled)
  /\ [](signalsDelivered > 0 => <>exited)
  /\ []((signalsDelivered > 0 /\ exited) =>
          \/ exitStatus = 0 /\ exitBy \in {"handleSessionStop", "help"}
          \/ exitStatus = 1 /\ exitBy \in {"printAndExit", "runDevServer"})

\* A signal was delivered while a worker was serving and the coordinator ended
\* the process with status 0.
C8_Witness ==
  /\ signalsDelivered > 0
  /\ exited
  /\ exitStatus = 0
  /\ exitBy = "handleSessionStop"
  /\ resolved[1]

\* C9: when the port nextDev resolved is reserved, the process has exited with
\* status 1 by printAndExit and no worker was ever forked, whatever the other
\* flags; no session with a reserved port forks a worker.
C9_ReservedPortExitsBeforeSpawn ==
  /\ port = "reserved" =>
       /\ exited
       /\ exitStatus = 1
       /\ exitBy = "printAndExit"
       /\ spawnCount = 0
       /\ child = 0
  /\ args.port = "reserved" => spawnCount = 0 /\ child = 0

\* The reserved port ended a session that had every other flag set.
C9_Witness ==
  /\ port = "reserved"
  /\ exited
  /\ exitStatus = 1
  /\ args.portFlag /\ args.envPort /\ args.turbo /\ args.uploadTrace
  /\ args.https = "selfsigned"

\* C10: the options of every startServer call, and so every options message
\* sent to a worker, have allowRetry false when --port or PORT was given and
\* true otherwise, and have the port nextDev resolved: the supervisor never
\* changes the port.
C10_AllowRetryInDeliveredOptions ==
  \A g \in Gens :
    (worker[g].status # "none" \/ \E to \in Gens : optionsSent[<<to, g>>] > 0) =>
      /\ (args.portFlag \/ args.envPort) => genOptions[g].allowRetry = FALSE
      /\ (~args.portFlag /\ ~args.envPort) => genOptions[g].allowRetry = TRUE
      /\ genOptions[g].port = port
      /\ port = args.port

\* Options were delivered to a restarted worker in a session that had PORT in
\* the environment and no --port flag.
C10_Witness ==
  /\ args.envPort /\ ~args.portFlag
  /\ optionsSent[<<2, 2>>] = 1
  /\ genOptions[2].allowRetry = FALSE


\* C11: in a session with --experimental-https and no key and cert files,
\* createSelfSignedCertificate returns once, before the first fork, and the
\* options of every startServer call, restarts included, hold that one
\* certificate; in any other session no certificate is generated.
C11_CertificateGeneratedOnce ==
  /\ certGenerated <= 1
  /\ args.https # "selfsigned" => certGenerated = 0
  /\ \A g \in Gens :
       worker[g].status # "none" =>
         /\ args.https = "selfsigned" =>
              /\ certGenerated = 1
              /\ genOptions[g].cert = [kind |-> "selfsigned", id |-> 1]
         /\ args.https = "files" => genOptions[g].cert = [kind |-> "files", id |-> 0]
         /\ args.https = "off" => genOptions[g].cert = NoCert
         /\ genOptions[g].cert = genOptions[1].cert

\* The restarted worker of a session with a generated certificate was sent
\* its options.
C11_Witness ==
  /\ args.https = "selfsigned"
  /\ spawnCount = 2
  /\ optionsSent[<<2, 2>>] = 1
  /\ certGenerated = 1
  /\ genOptions[2].cert.kind = "selfsigned"

\* C12: the exit handler, when sessionStopHandled is set or the worker died
\* by a signal, forks nothing and does not call handleSessionStop, whatever
\* the code; otherwise, when the code is not RESTART_EXIT_CODE, it calls
\* handleSessionStop with a null signal (kill argument 0) and forks nothing.
C12_ExitHandlerRulesInOrder ==
  [][\A g \in Gens :
       (worker[g].status = "dead" /\ worker'[g].status = "reaped") =>
         /\ (sessionStopHandled \/ worker[g].signal # "null") =>
              /\ spawnCount' = spawnCount
              /\ child' = child
              /\ stopInvocations' = stopInvocations
              /\ UNCHANGED <<stopVars, procVars, sessionStopHandled>>
         /\ ( /\ ~sessionStopHandled
              /\ worker[g].signal = "null"
              /\ worker[g].code # RESTART_EXIT_CODE ) =>
              /\ spawnCount' = spawnCount
              /\ child' = child
              /\ stopInvocations' = stopInvocations + 1
              /\ sessionStopHandled'
              /\ kills' = Append(kills, [inv |-> stopInvocations + 1, to |-> child,
                                         sig |-> "0"]) ]_vars

\* The exit handler of a worker that ended with another code called
\* handleSessionStop, which ended the session; no signal was delivered.
C12_Witness ==
  /\ signalsDelivered = 0
  /\ exitBy = "handleSessionStop"
  /\ spawnCount = 1
  /\ worker[1].status = "reaped"
  /\ Len(kills) = 1
  /\ kills[1].sig = "0"


\* C13: the handshake of each startServer call follows AwaitingReady ->
\* OptionsSent -> Serving: its promise is resolved only after a ready of its
\* worker was answered with options, and at most one options message answers
\* the readys of one worker.
C13_HandshakeStateMachine ==
  \A g \in Gens :
    /\ resolved[g] => \E to \in Gens : optionsSent[<<to, g>>] > 0
    /\ \A to \in Gens : optionsSent[<<to, g>>] <= 1
    /\ \A t1, t2 \in Gens :
         (optionsSent[<<t1, g>>] > 0 /\ optionsSent[<<t2, g>>] > 0) => t1 = t2

\* C14: an options message is sent to a worker only in answer to a ready of
\* that same worker.
C14_OptionsAnswerOwnReady ==
  \A to, from \in Gens : to # from => optionsSent[<<to, from>>] = 0


\* C15: at most one forked worker is alive; the workers are forked one after
\* the other, each after the exit of the one before it has been handled.
C15_AtMostOneWorkerAlive ==
  /\ Cardinality({g \in Gens : worker[g].status = "alive"}) <= 1
  /\ \A g \in Gens :
       /\ worker[g].status # "none" <=> g <= spawnCount
       /\ worker[g].status # "none" =>
            \A h \in Gens : h < g => worker[h].status = "reaped"

\* The second worker is alive after the first exited, a message of the first
\* still pending.
C15_Witness ==
  /\ worker[1].status = "reaped"
  /\ worker[2].status = "alive"
  /\ chan[1] # <<>>


\* No effect of lines 45-101 of handleSessionStop has happened.
NoStopEffects ==
  /\ telemetryRecords = 0
  /\ telemetryFlushes = 0
  /\ traceUploads = 0
  /\ cursorRestores = 0
  /\ performer = 0
  /\ stopAwaiting = {}
  /\ exitBy # "handleSessionStop"

\* C16: sessionStopHandled starts false, no step of any handler resets it
\* once it is set, and while it is false none of the coordinator's telemetry,
\* trace, cursor or exit effects has happened.
C16_FlagMonotoneAndGatesEffects ==
  /\ ~sessionStopHandled
  /\ [][ /\ sessionStopHandled => sessionStopHandled'
         /\ ~sessionStopHandled => NoStopEffects
         /\ ~sessionStopHandled' => NoStopEffects' ]_vars

\* The flag was set by a signal after a restart, the effects were performed
\* and the flag is still set.
C16_Witness ==
  /\ sessionStopHandled
  /\ spawnCount = 2
  /\ signalsDelivered = 1
  /\ nsent > 0
  /\ cursorRestores = 1
  /\ exitBy = "handleSessionStop"


\* The place of each step in the order of handleSessionStop.
StepRank(step) ==
  CASE step = "kill" -> 1
    [] step = "record" -> 2
    [] step = "flushDetached" -> 3
    [] step = "uploadTrace" -> 4
    [] step = "cursor" -> 5
    [] step = "newline" -> 6
    [] step = "exit" -> 7

\* The steps of s as a set.
StepsOf(s) == {s[i] : i \in DOMAIN s}

\* C17: the call of handleSessionStop that sets the flag makes its steps in
\* the order kill, telemetry (record, flushDetached), uploadTrace, cursor
\* restore, newline, process.exit(0), each at most once; when it reaches the
\* exit it has called uploadTrace if and only if traceUploadUrl is set, and has
\* written the cursor restore and the newline before; the exit is its last step.
C17_StopStepsInOrder ==
  /\ \A i, j \in DOMAIN stopSteps :
       i < j => StepRank(stopSteps[i]) < StepRank(stopSteps[j])
  /\ "exit" \in StepsOf(stopSteps)
       => /\ {"cursor", "newline"} \subseteq StepsOf(stopSteps)
          /\ ("uploadTrace" \in StepsOf(stopSteps)) <=> traceUploadUrl
          /\ stopSteps[Len(stopSteps)] = "exit"
          /\ exited /\ exitStatus = 0
  /\ exitBy = "handleSessionStop" => "exit" \in StepsOf(stopSteps)
  /\ "kill" \in StepsOf(stopSteps) => kills # <<>>

\* The call killed the worker, recorded telemetry, dispatched the trace and
\* exited.
C17_Witness ==
  stopSteps = <<"kill", "record", "flushDetached", "uploadTrace", "cursor",
                "newline", "exit">>


\* C18 as stated: in every state where no worker process is alive, `child` is
\* undefined.
C18_HandleClearedOnExit ==
  (\A g \in Gens : worker[g].status # "alive") => child = 0

\* C18: `child` is undefined until the first fork and from then on is the
\* handle of the worker forked last, alive or not; no handler clears it.
C18_HandleNamesLastForkedWorker ==
  /\ child = spawnCount
  /\ child # 0 => worker[child].status # "none"
  /\ \A k \in DOMAIN kills : kills[k].to # 0 /\ kills[k].to <= child

\* The exit handler of a worker that exited by itself called
\* handleSessionStop, which sent kill(0) through the handle of that worker.
C18_Witness ==
  /\ signalsDelivered = 0
  /\ exitBy = "handleSessionStop"
  /\ kills # <<>>
  /\ kills[1].sig = "0"
  /\ worker[kills[1].to].status = "reaped"
  /\ child = kills[1].to


\* The parent was not ended by handleSessionStop while a worker is alive to
\* which no child.kill was addressed.
NoWorkerLeftBehind ==
  exitBy = "handleSessionStop"
    => \A g \in Gens :
         worker[g].status = "alive" => \E k \in DOMAIN kills : kills[k].to = g

\* C19: once sessionStopHandled is set no step calls fork, and
\* handleSessionStop never ends the parent while a worker is alive that was
\* never sent a kill.
C19_NoSpawnAfterStop ==
  [][ /\ sessionStopHandled => spawnCount' = spawnCount
      /\ NoWorkerLeftBehind' ]_vars


\* C20: whenever traceUploadUrl is set config is assigned, so every call of
\* uploadTrace read distDir from an assigned config, and no exception has left
\* handleSessionStop.
C20_TraceUploadReadsLoadedConfig ==
  /\ traceUploadUrl => config
  /\ traceUploads > 0 => config /\ traceUploadUrl
  /\ ~escaped

\* A signal came before the fork, the coordinator waited for its loadConfig
\* while nextDev assigned config and traceUploadUrl, its telemetry step
\* recorded nothing, and it dispatched the trace and exited.
C20_Witness ==
  /\ traceUploadUrl
  /\ spawnCount = 1
  /\ kills = <<>>
  /\ performer = 1
  /\ telemetryRecords = 0
  /\ traceUploads = 1
  /\ exitBy = "handleSessionStop"

====
